---- MODULE Spec2Model ----
(***************************************************************************)
(* Model of package namedrouter (src/named_routes.go): a registry of named *)
(* gin routes and the reverse construction of a path from a route name and *)
(* parameter bindings.                                                      *)
(*                                                                          *)
(* A Go string is modelled as a sequence of one-character strings, so that *)
(* strings.Split, part[0:1], part[1:] and strings.Builder are computed on   *)
(* characters as the code computes them.  Route names are never inspected   *)
(* by the code and are kept as atoms.  A Go map is a function; the maps     *)
(* made by Reverse live in a heap (params) and a NamedRoute holds an index  *)
(* into it, because a Go map value is a reference.                          *)
(***************************************************************************)
EXTENDS Naturals, Sequences, FiniteSets, TLC

VARIABLES
    names,       \* NamedRouter.names: route name -> route template
    groups,      \* the NamedGroup values created so far
    handles,     \* the NamedRoute values returned by Reverse
    params,      \* heap of the maps made by Reverse (NamedRoute.parameters points here)
    last,        \* the last call: its arguments, the bindings before it, its results
    chain,       \* history: for each group, the path arguments of its NamedGroup calls
    registered,  \* history: for each name, the arguments of its latest registration
    reversed     \* history: for each handle, the name asked of Reverse and the registry then

vars == <<names, groups, handles, params, last, chain, registered, reversed>>

-----------------------------------------------------------------------------
(* Bounds and input sets *)

MaxTokens == 4

Tokens == { <<"/">>, <<"a">>, <<"/", ":", "a">>, <<"/", "*", "b">> }

RECURSIVE Strings(_)
Strings(n) ==
    IF n = 0 THEN { <<>> }
    ELSE LET S == Strings(n - 1) IN S \cup { s \o t : s \in S, t \in Tokens }

Templates == Strings(MaxTokens)

RouteNames == { "root", "user" }

SpecNames == { "user" }

Keys == { <<"a">>, <<"b">> }

Values == { <<"b">>, <<"a", "/", "b">>, <<"b", "/">> }

\* the inputs of Spec, where the registry and the groups vary as well
MaxGroups == 2

Prefixes == { <<"/", "a">>, <<"a">> }

RelPaths == { <<"/", "a">>, <<"/", ":", "a">>, <<"/">> }

SpecKeys == { <<"a">> }

SpecValues == { <<"b">> }

\* the inputs of HandlesSpec, where several handles are reversed
MaxHandles == 2

HandleTemplates == { <<"/", ":", "a">>, <<"/", ":", "a", "/", "*", "b">> }

-----------------------------------------------------------------------------
(* Go maps *)

EmptyMap == [k \in {} |-> <<>>]

MapSet(m, key, value) ==
    [k \in DOMAIN m \cup {key} |-> IF k = key THEN value ELSE m[k]]

MapDelete(m, key) ==
    [k \in DOMAIN m \ {key} |-> m[k]]

\* m[key] of a map[string]string: the zero value "" when the key is absent
MapGet(m, key) == IF key \in DOMAIN m THEN m[key] ELSE <<>>

-----------------------------------------------------------------------------
(* Errors *)

NoError == [type |-> "nil", name |-> "", param |-> <<>>]

NoRouteDefinedError(name) ==
    [type |-> "NoRouteDefinedError", name |-> name, param |-> <<>>]

UnknownRouteParameter(key) ==
    [type |-> "UnknownRouteParameter", name |-> "", param |-> key]

RouteParameterNotSet(param) ==
    [type |-> "RouteParameterNotSet", name |-> "", param |-> param]

-----------------------------------------------------------------------------
(* strings.Split(s, sep) for a one-character separator *)

RECURSIVE IndexOf(_, _, _)
IndexOf(s, sep, i) ==
    IF i > Len(s) THEN 0
    ELSE IF s[i] = sep THEN i
    ELSE IndexOf(s, sep, i + 1)

RECURSIVE Split(_, _)
Split(s, sep) ==
    LET i == IndexOf(s, sep, 1)
    IN  IF i = 0 THEN << s >>
        ELSE << SubSeq(s, 1, i - 1) >> \o Split(SubSeq(s, i + 1, Len(s)), sep)

-----------------------------------------------------------------------------
(* Route templates *)

Segments(t) == Split(t, "/")

\* a part that Path replaces: part[0:1] == ":" || part[0:1] == "*"
IsPlaceholder(part) == part # <<>> /\ (part[1] = ":" \/ part[1] = "*")

\* t begins with "/" and has no two adjacent "/"
SlashNormal(t) ==
    /\ t # <<>>
    /\ t[1] = "/"
    /\ \A i \in 1..(Len(t) - 1) : ~ (t[i] = "/" /\ t[i + 1] = "/")

\* a "*" segment, if any, is the last segment
WildcardLast(t) ==
    \A i \in DOMAIN Segments(t) :
        (Segments(t)[i] # <<>> /\ Segments(t)[i][1] = "*") => i = Len(Segments(t))

\* the templates of Templates that are absolute, clean paths as the wrapped
\* engine documents them
NormalTemplates == { t \in Templates : SlashNormal(t) /\ WildcardLast(t) }

-----------------------------------------------------------------------------
(* The loop of NamedRoute.Path.  i is the Go index (from 0); url is the     *)
(* strings.Builder; parameters is the map, which the loop mutates in place. *)

\* a loop that writes "/" after every part, the last one too
RECURSIVE PathLoop_SlashAfterEveryPart(_, _, _, _)
PathLoop_SlashAfterEveryPart(parts, i, url, parameters) ==
    LET lastPartIndex == Len(parts) - 1
        part == parts[i + 1]
    IN  IF i > lastPartIndex
        THEN [err |-> NoError, url |-> url, parameters |-> parameters]
        ELSE IF part = <<>>
        THEN PathLoop_SlashAfterEveryPart(parts, i + 1, url, parameters)
        ELSE IF part[1] = ":" \/ part[1] = "*"
        THEN LET param == Tail(part)
             IN  IF param \notin DOMAIN parameters
                 THEN [err |-> RouteParameterNotSet(param), url |-> <<>>,
                       parameters |-> parameters]
                 ELSE PathLoop_SlashAfterEveryPart(
                          parts, i + 1, url \o parameters[param] \o <<"/">>,
                          MapDelete(parameters, param))
        ELSE PathLoop_SlashAfterEveryPart(parts, i + 1, url \o part \o <<"/">>,
                                          parameters)

RECURSIVE PathLoop(_, _, _, _)
PathLoop(parts, i, url, parameters) ==
    LET lastPartIndex == Len(parts) - 1
        part == parts[i + 1]
        slash == IF i < lastPartIndex THEN <<"/">> ELSE <<>>
    IN  IF i > lastPartIndex
        THEN [err |-> NoError, url |-> url, parameters |-> parameters]
        ELSE IF part = <<>>
        THEN PathLoop(parts, i + 1, url, parameters)
        ELSE IF part[1] = ":" \/ part[1] = "*"
        THEN LET param == Tail(part)
             IN  IF param \notin DOMAIN parameters
                 THEN [err |-> RouteParameterNotSet(param), url |-> <<>>,
                       parameters |-> parameters]
                 ELSE PathLoop(parts, i + 1, url \o parameters[param] \o slash,
                               MapDelete(parameters, param))
        ELSE PathLoop(parts, i + 1, url \o part \o slash, parameters)

-----------------------------------------------------------------------------
(* State *)

NilRoute == [name |-> "", route |-> <<>>, parameters |-> 0]

NoCall ==
    [op |-> "New", recv |-> 0, name |-> "", relativePath |-> <<>>,
     key |-> <<>>, value |-> <<>>, before |-> EmptyMap,
     ret |-> NilRoute, path |-> <<>>, err |-> NoError]

\* New(engine)
Init ==
    /\ names = [n \in {} |-> <<>>]
    /\ groups = <<>>
    /\ handles = <<>>
    /\ params = <<>>
    /\ last = NoCall
    /\ chain = <<>>
    /\ registered = [n \in {} |-> <<>>]
    /\ reversed = <<>>

-----------------------------------------------------------------------------
(* Registration.  The gin call that follows the assignment to names         *)
(* (nr.POST(...), ng.GET(...), ...) belongs to the wrapped engine and does   *)
(* not touch the state of this package.                                      *)

Registered(g, name, relativePath) ==
    /\ registered' = MapSet(registered, name,
                            [prefixes |-> IF g = 0 THEN <<>> ELSE chain[g],
                             relativePath |-> relativePath])
    /\ last' = [NoCall EXCEPT !.op = "Register", !.recv = g, !.name = name,
                              !.relativePath = relativePath]
    /\ UNCHANGED <<groups, handles, params, chain, reversed>>

Router_Post(name, relativePath) ==
    /\ names' = MapSet(names, name, relativePath)
    /\ Registered(0, name, relativePath)

Router_Get(name, relativePath) ==
    /\ names' = MapSet(names, name, relativePath)
    /\ Registered(0, name, relativePath)

\* a Delete that takes the name out of the registry
Router_Delete_Removes(name, relativePath) ==
    /\ names' = MapDelete(names, name)
    /\ Registered(0, name, relativePath)

Router_Delete(name, relativePath) ==
    /\ names' = MapSet(names, name, relativePath)
    /\ Registered(0, name, relativePath)

Router_Patch(name, relativePath) ==
    /\ names' = MapSet(names, name, relativePath)
    /\ Registered(0, name, relativePath)

Router_Put(name, relativePath) ==
    /\ names' = MapSet(names, name, relativePath)
    /\ Registered(0, name, relativePath)

Router_Options(name, relativePath) ==
    /\ names' = MapSet(names, name, relativePath)
    /\ Registered(0, name, relativePath)

Router_Head(name, relativePath) ==
    /\ names' = MapSet(names, name, relativePath)
    /\ Registered(0, name, relativePath)

Group_Post(g, name, relativePath) ==
    /\ names' = MapSet(names, name, groups[g].basePath \o relativePath)
    /\ Registered(g, name, relativePath)

Group_Get(g, name, relativePath) ==
    /\ names' = MapSet(names, name, groups[g].basePath \o relativePath)
    /\ Registered(g, name, relativePath)

Group_Delete(g, name, relativePath) ==
    /\ names' = MapSet(names, name, groups[g].basePath \o relativePath)
    /\ Registered(g, name, relativePath)

Group_Patch(g, name, relativePath) ==
    /\ names' = MapSet(names, name, groups[g].basePath \o relativePath)
    /\ Registered(g, name, relativePath)

Group_Put(g, name, relativePath) ==
    /\ names' = MapSet(names, name, groups[g].basePath \o relativePath)
    /\ Registered(g, name, relativePath)

Group_Options(g, name, relativePath) ==
    /\ names' = MapSet(names, name, groups[g].basePath \o relativePath)
    /\ Registered(g, name, relativePath)

Group_Head(g, name, relativePath) ==
    /\ names' = MapSet(names, name, groups[g].basePath \o relativePath)
    /\ Registered(g, name, relativePath)

-----------------------------------------------------------------------------
(* Groups *)

Router_NamedGroup(path) ==
    /\ groups' = Append(groups, [basePath |-> path])
    /\ chain' = Append(chain, << path >>)
    /\ last' = [NoCall EXCEPT !.op = "NamedGroup", !.relativePath = path]
    /\ UNCHANGED <<names, handles, params, registered, reversed>>

\* a nested group whose prefix is appended without the "/"
Group_NamedGroup_NoSeparator(g, path) ==
    /\ groups' = Append(groups, [basePath |-> groups[g].basePath \o path])
    /\ chain' = Append(chain, Append(chain[g], path))
    /\ last' = [NoCall EXCEPT !.op = "NamedGroup", !.recv = g, !.relativePath = path]
    /\ UNCHANGED <<names, handles, params, registered, reversed>>

Group_NamedGroup(g, path) ==
    /\ groups' = Append(groups, [basePath |-> groups[g].basePath \o <<"/">> \o path])
    /\ chain' = Append(chain, Append(chain[g], path))
    /\ last' = [NoCall EXCEPT !.op = "NamedGroup", !.recv = g, !.relativePath = path]
    /\ UNCHANGED <<names, handles, params, registered, reversed>>

-----------------------------------------------------------------------------
(* Reverse, With, Path *)

\* a Reverse that leaves the name of the NamedRoute unset
Reverse_NameUnset(name) ==
    LET nr == [name |-> "", route |-> MapGet(names, name),
               parameters |-> Len(params) + 1]
    IN  /\ params' = Append(params, EmptyMap)
        /\ handles' = Append(handles, nr)
        /\ last' = [NoCall EXCEPT !.op = "Reverse", !.name = name, !.ret = nr]
        /\ reversed' = Append(reversed, [name |-> name, names |-> names,
                                         registered |-> registered])
        /\ UNCHANGED <<names, groups, chain, registered>>

\* a Reverse that hands every NamedRoute the map made by the first call
Reverse_SharedMap(name) ==
    LET nr == [name |-> name, route |-> MapGet(names, name), parameters |-> 1]
    IN  /\ params' = IF params = <<>> THEN << EmptyMap >> ELSE params
        /\ handles' = Append(handles, nr)
        /\ last' = [NoCall EXCEPT !.op = "Reverse", !.name = name, !.ret = nr]
        /\ reversed' = Append(reversed, [name |-> name, names |-> names,
                                         registered |-> registered])
        /\ UNCHANGED <<names, groups, chain, registered>>

Reverse(name) ==
    LET nr == [name |-> name, route |-> MapGet(names, name),
               parameters |-> Len(params) + 1]
    IN  /\ params' = Append(params, EmptyMap)
        /\ handles' = Append(handles, nr)
        /\ last' = [NoCall EXCEPT !.op = "Reverse", !.name = name, !.ret = nr]
        /\ reversed' = Append(reversed, [name |-> name, names |-> names,
                                         registered |-> registered])
        /\ UNCHANGED <<names, groups, chain, registered>>

\* a With that copies the map before it writes
With_CopiesMap(h, key, value) ==
    LET nr == handles[h]
        copy == [nr EXCEPT !.parameters = Len(params) + 1]
    IN  /\ params' = Append(params, MapSet(params[nr.parameters], key, value))
        /\ last' = [NoCall EXCEPT !.op = "With", !.recv = h, !.key = key,
                                  !.value = value,
                                  !.before = params[nr.parameters], !.ret = copy]
        /\ UNCHANGED <<names, groups, handles, chain, registered, reversed>>

\* nr is copied into the receiver, the map it points to is not
With(h, key, value) ==
    LET nr == handles[h]
    IN  /\ params' = [params EXCEPT ![nr.parameters] = MapSet(@, key, value)]
        /\ last' = [NoCall EXCEPT !.op = "With", !.recv = h, !.key = key,
                                  !.value = value,
                                  !.before = params[nr.parameters], !.ret = nr]
        /\ UNCHANGED <<names, groups, handles, chain, registered, reversed>>

\* a Path that resolves the name in the registry when it is called
Path_ResolvesLate(h) ==
    LET nr == [handles[h] EXCEPT !.route = MapGet(names, handles[h].name)]
        parameters == params[nr.parameters]
        call == [NoCall EXCEPT !.op = "Path", !.recv = h, !.before = parameters]
        walk == PathLoop(Split(nr.route, "/"), 0, <<"/">>, parameters)
    IN  /\ IF nr.route = <<>>
           THEN /\ last' = [call EXCEPT !.err = NoRouteDefinedError(nr.name)]
                /\ UNCHANGED params
           ELSE /\ params' = [params EXCEPT ![nr.parameters] = walk.parameters]
                /\ IF walk.err # NoError
                   THEN last' = [call EXCEPT !.err = walk.err]
                   ELSE IF DOMAIN walk.parameters # {}
                   THEN \E key \in DOMAIN walk.parameters :
                            last' = [call EXCEPT !.err = UnknownRouteParameter(key)]
                   ELSE last' = [call EXCEPT !.path = walk.url]
        /\ UNCHANGED <<names, groups, handles, chain, registered, reversed>>

Path(h) ==
    LET nr == handles[h]
        parameters == params[nr.parameters]
        call == [NoCall EXCEPT !.op = "Path", !.recv = h, !.before = parameters]
        walk == PathLoop(Split(nr.route, "/"), 0, <<"/">>, parameters)
    IN  /\ IF nr.route = <<>>
           THEN /\ last' = [call EXCEPT !.err = NoRouteDefinedError(nr.name)]
                /\ UNCHANGED params
           ELSE /\ params' = [params EXCEPT ![nr.parameters] = walk.parameters]
                /\ IF walk.err # NoError
                   THEN last' = [call EXCEPT !.err = walk.err]
                   ELSE IF DOMAIN walk.parameters # {}
                   THEN \E key \in DOMAIN walk.parameters :
                            last' = [call EXCEPT !.err = UnknownRouteParameter(key)]
                   ELSE last' = [call EXCEPT !.path = walk.url]
        /\ UNCHANGED <<names, groups, handles, chain, registered, reversed>>

-----------------------------------------------------------------------------
(* PathSpec: one route is registered with any template of Templates, then   *)
(* one handle is reversed, bound and rendered, in any order and number.      *)

PathNext ==
    \/ \E relativePath \in Templates :
           /\ handles = <<>>
           /\ DOMAIN names = {}
           /\ Router_Get("user", relativePath)
    \/ /\ handles = <<>>
       /\ Reverse("user")
    \/ \E h \in DOMAIN handles, key \in Keys, value \in Values : With(h, key, value)
    \/ \E h \in DOMAIN handles : Path(h)

PathSpec == Init /\ [][PathNext]_vars

-----------------------------------------------------------------------------
(* NormalPathSpec: as PathSpec, with the route registered under a template   *)
(* of NormalTemplates.                                                       *)

NormalPathNext ==
    \/ \E relativePath \in NormalTemplates :
           /\ handles = <<>>
           /\ DOMAIN names = {}
           /\ Router_Get("user", relativePath)
    \/ /\ handles = <<>>
       /\ Reverse("user")
    \/ \E h \in DOMAIN handles, key \in Keys, value \in Values : With(h, key, value)
    \/ \E h \in DOMAIN handles : Path(h)

NormalPathSpec == Init /\ [][NormalPathNext]_vars

-----------------------------------------------------------------------------
(* Spec: the router, its groups, every registration method, and one handle   *)
(* that is reversed, bound and rendered while registration goes on.          *)

Next ==
    \/ \E name \in SpecNames, relativePath \in RelPaths :
           Router_Post(name, relativePath)
    \/ \E name \in SpecNames, relativePath \in RelPaths :
           Router_Get(name, relativePath)
    \/ \E name \in SpecNames, relativePath \in RelPaths :
           Router_Delete(name, relativePath)
    \/ \E name \in SpecNames, relativePath \in RelPaths :
           Router_Patch(name, relativePath)
    \/ \E name \in SpecNames, relativePath \in RelPaths :
           Router_Put(name, relativePath)
    \/ \E name \in SpecNames, relativePath \in RelPaths :
           Router_Options(name, relativePath)
    \/ \E name \in SpecNames, relativePath \in RelPaths :
           Router_Head(name, relativePath)
    \/ \E g \in DOMAIN groups, name \in SpecNames, relativePath \in RelPaths :
           Group_Post(g, name, relativePath)
    \/ \E g \in DOMAIN groups, name \in SpecNames, relativePath \in RelPaths :
           Group_Get(g, name, relativePath)
    \/ \E g \in DOMAIN groups, name \in SpecNames, relativePath \in RelPaths :
           Group_Delete(g, name, relativePath)
    \/ \E g \in DOMAIN groups, name \in SpecNames, relativePath \in RelPaths :
           Group_Patch(g, name, relativePath)
    \/ \E g \in DOMAIN groups, name \in SpecNames, relativePath \in RelPaths :
           Group_Put(g, name, relativePath)
    \/ \E g \in DOMAIN groups, name \in SpecNames, relativePath \in RelPaths :
           Group_Options(g, name, relativePath)
    \/ \E g \in DOMAIN groups, name \in SpecNames, relativePath \in RelPaths :
           Group_Head(g, name, relativePath)
    \/ \E path \in Prefixes :
           /\ Len(groups) < MaxGroups
           /\ Router_NamedGroup(path)
    \/ \E g \in DOMAIN groups, path \in Prefixes :
           /\ Len(groups) < MaxGroups
           /\ Group_NamedGroup(g, path)
    \/ \E name \in SpecNames :
           /\ handles = <<>>
           /\ Reverse(name)
    \/ \E h \in DOMAIN handles, key \in SpecKeys, value \in SpecValues :
           With(h, key, value)
    \/ \E h \in DOMAIN handles : Path(h)

Spec == Init /\ [][Next]_vars

-----------------------------------------------------------------------------
(* RegistrySpec: registration alone, through the router and its groups,     *)
(* under several names.                                                      *)

RegistryNext ==
    \/ \E name \in RouteNames, relativePath \in RelPaths :
           Router_Post(name, relativePath)
    \/ \E name \in RouteNames, relativePath \in RelPaths :
           Router_Get(name, relativePath)
    \/ \E name \in RouteNames, relativePath \in RelPaths :
           Router_Delete(name, relativePath)
    \/ \E name \in RouteNames, relativePath \in RelPaths :
           Router_Patch(name, relativePath)
    \/ \E name \in RouteNames, relativePath \in RelPaths :
           Router_Put(name, relativePath)
    \/ \E name \in RouteNames, relativePath \in RelPaths :
           Router_Options(name, relativePath)
    \/ \E name \in RouteNames, relativePath \in RelPaths :
           Router_Head(name, relativePath)
    \/ \E g \in DOMAIN groups, name \in RouteNames, relativePath \in RelPaths :
           Group_Post(g, name, relativePath)
    \/ \E g \in DOMAIN groups, name \in RouteNames, relativePath \in RelPaths :
           Group_Get(g, name, relativePath)
    \/ \E g \in DOMAIN groups, name \in RouteNames, relativePath \in RelPaths :
           Group_Delete(g, name, relativePath)
    \/ \E g \in DOMAIN groups, name \in RouteNames, relativePath \in RelPaths :
           Group_Patch(g, name, relativePath)
    \/ \E g \in DOMAIN groups, name \in RouteNames, relativePath \in RelPaths :
           Group_Put(g, name, relativePath)
    \/ \E g \in DOMAIN groups, name \in RouteNames, relativePath \in RelPaths :
           Group_Options(g, name, relativePath)
    \/ \E g \in DOMAIN groups, name \in RouteNames, relativePath \in RelPaths :
           Group_Head(g, name, relativePath)
    \/ \E path \in Prefixes :
           /\ Len(groups) < MaxGroups
           /\ Router_NamedGroup(path)
    \/ \E g \in DOMAIN groups, path \in Prefixes :
           /\ Len(groups) < MaxGroups
           /\ Group_NamedGroup(g, path)

RegistrySpec == Init /\ [][RegistryNext]_vars

-----------------------------------------------------------------------------
(* HandlesSpec: routes are registered under the names of RouteNames, then    *)
(* up to MaxHandles handles are reversed, for the same name or for different *)
(* names, and bound and rendered in any interleaving.                        *)

HandlesNext ==
    \/ \E name \in RouteNames, relativePath \in HandleTemplates :
           /\ handles = <<>>
           /\ Router_Get(name, relativePath)
    \/ \E name \in RouteNames :
           /\ Len(handles) < MaxHandles
           /\ Reverse(name)
    \/ \E h \in DOMAIN handles, key \in Keys, value \in SpecValues :
           With(h, key, value)
    \/ \E h \in DOMAIN handles : Path(h)

HandlesSpec == Init /\ [][HandlesNext]_vars

-----------------------------------------------------------------------------
(* Vocabulary of the properties *)

PlaceholderNames(t) ==
    { Tail(Segments(t)[i]) : i \in { j \in DOMAIN Segments(t) : IsPlaceholder(Segments(t)[j]) } }

HasPlaceholder(t) == \E i \in DOMAIN Segments(t) : IsPlaceholder(Segments(t)[i])

RECURSIVE Join(_, _)
Join(parts, sep) ==
    IF parts = <<>> THEN <<>>
    ELSE IF Len(parts) = 1 THEN parts[1]
    ELSE parts[1] \o sep \o Join(Tail(parts), sep)

\* the template with every placeholder segment replaced by the value bound to its name
Substituted(t, m) ==
    Join([i \in DOMAIN Segments(t) |->
             IF IsPlaceholder(Segments(t)[i]) THEN m[Tail(Segments(t)[i])]
             ELSE Segments(t)[i]],
         <<"/">>)

\* the names of the placeholders of t that m does not bind, in template order
UnboundPlaceholders(t, m) ==
    SelectSeq(Segments(t), LAMBDA part : IsPlaceholder(part) /\ Tail(part) \notin DOMAIN m)

EndsWithSlash(s) == s # <<>> /\ s[Len(s)] = "/"

\* the last call was Path, on a handle whose template is t, with bindings m
Rendered(t, m) ==
    /\ last.op = "Path"
    /\ handles[last.recv].route = t
    /\ last.before = m

RenderedRoute == handles[last.recv].route

-----------------------------------------------------------------------------
(* C1: for a registered template with one or more placeholder segments and  *)
(* a handle whose bindings are exactly the placeholder names, Path returns   *)
(* no error and the template with each placeholder segment replaced by the   *)
(* value bound to its name.                                                  *)

C1_ExactBindingsSubstitute ==
    ( /\ last.op = "Path"
      /\ RenderedRoute # <<>>
      /\ HasPlaceholder(RenderedRoute)
      /\ DOMAIN last.before = PlaceholderNames(RenderedRoute) )
    => /\ last.err = NoError
       /\ last.path = Substituted(RenderedRoute, last.before)

(* C2: for a registered non-empty template without placeholder segment,     *)
(* Path with no bindings returns the template unchanged and no error.        *)

C3_FirstUnboundReported ==
    ( /\ last.op = "Path"
      /\ RenderedRoute # <<>>
      /\ UnboundPlaceholders(RenderedRoute, last.before) # <<>> )
    => /\ last.err = RouteParameterNotSet(
                         Tail(UnboundPlaceholders(RenderedRoute, last.before)[1]))
       /\ last.path = <<>>

(* C4: for a registered non-empty template whose placeholders are all bound, *)
(* if some bound key is not a placeholder name, Path returns                 *)
(* UnknownRouteParameter carrying one such key, and the empty path.          *)

C4_LeftoverReported ==
    ( /\ last.op = "Path"
      /\ RenderedRoute # <<>>
      /\ PlaceholderNames(RenderedRoute) \subseteq DOMAIN last.before
      /\ DOMAIN last.before \ PlaceholderNames(RenderedRoute) # {} )
    => /\ last.err.type = "UnknownRouteParameter"
       /\ last.err.param \in DOMAIN last.before \ PlaceholderNames(RenderedRoute)
       /\ last.path = <<>>

(* C5: for a name that had no registered template when Reverse was called,  *)
(* Path on the handle returns NoRouteDefinedError carrying the name asked    *)
(* of Reverse, and the empty path, whatever bindings With has added.         *)

C5_NoRouteDefined ==
    ( /\ last.op = "Path"
      /\ reversed[last.recv].name \notin DOMAIN reversed[last.recv].names )
    => /\ last.err = NoRouteDefinedError(reversed[last.recv].name)
       /\ last.path = <<>>

C5_Witness ==
    /\ last.op = "Path"
    /\ reversed[last.recv].name \notin DOMAIN reversed[last.recv].names
    /\ reversed[last.recv].name \in DOMAIN names
    /\ DOMAIN last.before # {}
    /\ last.err.type = "NoRouteDefinedError"

(* C6: Path is repeatable: two Path calls in a row on one handle, with no    *)
(* call in between, return the same path and the same error.                 *)

C6_PathRepeatable ==
    [][ (last.op = "Path" /\ last'.op = "Path" /\ last'.recv = last.recv)
            => (last'.path = last.path /\ last'.err = last.err) ]_vars

(* C7: With has value semantics: the handle h.With(k, v) returns binds k to  *)
(* v on top of the bindings of h, and the bindings of h itself are the same  *)
(* after the call as before it.                                              *)

C7_WithValueSemantics ==
    last.op = "With"
    => /\ params[last.ret.parameters] = MapSet(last.before, last.key, last.value)
       /\ params[handles[last.recv].parameters] = last.before

(* C7 as amended: h.With(k, v) returns a handle with the name, the template  *)
(* and the very binding set of h, and in that shared set k is bound to v     *)
(* (the last write for a key wins) and every other key is as before: h       *)
(* itself sees k = v after the call.                                         *)

C7_WithSharesBindings ==
    last.op = "With"
    => /\ last.ret = handles[last.recv]
       /\ params[handles[last.recv].parameters]
              = MapSet(last.before, last.key, last.value)

C7_Witness ==
    /\ last.op = "With"
    /\ last.key \in DOMAIN last.before
    /\ last.before[last.key] # last.value
    /\ DOMAIN last.before # {last.key}
    /\ params[handles[last.recv].parameters][last.key] = last.value

(* C8: a registration through a group whose NamedGroup calls were given the  *)
(* prefixes p1..pn stores p1 + "/" + ... + "/" + pn + relativePath under the *)
(* name, and Reverse(name).Path() returns that template.                     *)

GroupTemplate(prefixes, relativePath) == Join(prefixes, <<"/">>) \o relativePath

\* the last call was Path, with no bindings, on a handle whose name was last
\* registered through a group when Reverse resolved it
RenderedGroupRoute ==
    /\ last.op = "Path"
    /\ last.before = EmptyMap
    /\ reversed[last.recv].name \in DOMAIN reversed[last.recv].registered
    /\ reversed[last.recv].registered[reversed[last.recv].name].prefixes # <<>>

ReversedTemplate ==
    LET r == reversed[last.recv].registered[reversed[last.recv].name]
    IN  GroupTemplate(r.prefixes, r.relativePath)

GroupStoresTemplate ==
    (last.op = "Register" /\ last.recv # 0)
    => /\ last.name \in DOMAIN names
       /\ names[last.name] = GroupTemplate(chain[last.recv], last.relativePath)

RegistryIsLatest ==
    /\ DOMAIN names = DOMAIN registered
    /\ \A n \in DOMAIN names :
           names[n] = GroupTemplate(registered[n].prefixes, registered[n].relativePath)

RegistrationFrame ==
    /\ \A n \in DOMAIN names : n \in DOMAIN names'
    /\ \A n \in DOMAIN names' :
           (n \notin DOMAIN names \/ names'[n] # names[n])
               => (last'.op = "Register" /\ last'.name = n)

C9_LastRegistrationWins == [] RegistryIsLatest /\ [][RegistrationFrame]_vars

C9_Witness ==
    /\ last.op = "Register"
    /\ last.recv # 0
    /\ Len(chain[last.recv]) = 2
    /\ DOMAIN names = RouteNames
    /\ \E n \in DOMAIN names : registered[n].prefixes = <<>>

(* C10: a successful Path result does not end with "/", when no bound value  *)
(* ends with "/", except the root path "/" itself.                           *)

C10_NoTrailingSlash ==
    ( /\ last.op = "Path"
      /\ last.err = NoError
      /\ RenderedRoute # <<>>
      /\ \A k \in DOMAIN last.before : ~ EndsWithSlash(last.before[k]) )
    => (last.path = <<"/">> \/ ~ EndsWithSlash(last.path))

(* C11: handles are isolated from each other.  Every Reverse call makes a    *)
(* fresh, empty binding set that no other handle points to; a With or Path   *)
(* call on one handle leaves every other handle and its binding set as they  *)
(* were; and what Path returns on a handle, and what it leaves of the        *)
(* bindings, is what it returns on that handle alone with the handle's own   *)
(* bindings.  So under every interleaving of the calls on two handles each   *)
(* Path result is the one of the handle's own calls.                         *)

OwnBindings(h) == params[handles[h].parameters]

\* the results (path, err) of Path on the NamedRoute nr whose bindings are m
SoloPath(nr, m) ==
    LET walk == PathLoop(Split(nr.route, "/"), 0, <<"/">>, m)
    IN  IF nr.route = <<>>
        THEN { [path |-> <<>>, err |-> NoRouteDefinedError(nr.name)] }
        ELSE IF walk.err # NoError
        THEN { [path |-> <<>>, err |-> walk.err] }
        ELSE IF DOMAIN walk.parameters # {}
        THEN { [path |-> <<>>, err |-> UnknownRouteParameter(key)] :
                   key \in DOMAIN walk.parameters }
        ELSE { [path |-> walk.url, err |-> NoError] }

\* the bindings Path leaves on the NamedRoute nr whose bindings are m
SoloBindings(nr, m) ==
    IF nr.route = <<>> THEN m
    ELSE PathLoop(Split(nr.route, "/"), 0, <<"/">>, m).parameters

FreshBindings ==
    /\ \A h1, h2 \in DOMAIN handles :
           h1 # h2 => handles[h1].parameters # handles[h2].parameters
    /\ last.op = "Reverse"
           => /\ last.ret = handles[Len(handles)]
              /\ OwnBindings(Len(handles)) = EmptyMap

OthersUntouched ==
    \A h \in DOMAIN handles :
        \/ last'.op \in {"With", "Path"} /\ last'.recv = h
        \/ /\ handles'[h] = handles[h]
           /\ params'[handles'[h].parameters] = OwnBindings(h)

OwnResult ==
    /\ last'.op = "With"
           => params'[handles'[last'.recv].parameters]
                  = MapSet(OwnBindings(last'.recv), last'.key, last'.value)
    /\ last'.op = "Path"
           => /\ [path |-> last'.path, err |-> last'.err]
                     \in SoloPath(handles[last'.recv], OwnBindings(last'.recv))
              /\ params'[handles'[last'.recv].parameters]
                     = SoloBindings(handles[last'.recv], OwnBindings(last'.recv))

C11_HandlesIsolated ==
    [] FreshBindings /\ [][OthersUntouched /\ OwnResult]_vars

\* handle 1 has been rendered with its binding and has lost it, while handle
\* 2, reversed for the same name and bound in between, still has its own
C11_Witness ==
    /\ Len(handles) = 2
    /\ handles[1] = [handles[2] EXCEPT !.parameters = handles[1].parameters]
    /\ handles[1].route = <<"/", ":", "a">>
    /\ last.op = "Path"
    /\ last.recv = 1
    /\ last.before = (<<"a">> :> <<"b">>)
    /\ last.err = NoError
    /\ last.path = <<"/", "b">>
    /\ OwnBindings(1) = EmptyMap
    /\ OwnBindings(2) = (<<"a">> :> <<"b">>)

(* C12: lookup is two-phase and takes a snapshot.  Reverse always returns a  *)
(* handle, for the name it was asked and the template the registry holds     *)
(* for it at that moment (empty when there is none), and leaves the registry *)
(* as it was.  The handle keeps that template whatever is registered later,  *)
(* and Path returns what it returns for that template: in particular         *)
(* NoRouteDefinedError when the name had no template then, even if it has    *)
(* one when Path is called.                                                  *)

\* the NamedRoute of handle h as Reverse resolved it, from the history
Snapshot(h) ==
    [name |-> reversed[h].name,
     route |-> MapGet(reversed[h].names, reversed[h].name),
     parameters |-> handles[h].parameters]

SnapshotKept ==
    /\ DOMAIN reversed = DOMAIN handles
    /\ \A h \in DOMAIN handles : handles[h] = Snapshot(h)
    /\ ( /\ last.op = "Path"
         /\ reversed[last.recv].name \notin DOMAIN reversed[last.recv].names )
       => last.err = NoRouteDefinedError(reversed[last.recv].name)

ReverseOnlyReads ==
    last'.op = "Reverse"
    => /\ names' = names
       /\ handles' = Append(handles, last'.ret)
       /\ last'.ret.name = last'.name
       /\ last'.ret.route = MapGet(names, last'.name)
       /\ last'.err = NoError

SnapshotRendered ==
    last'.op = "Path"
    => [path |-> last'.path, err |-> last'.err]
           \in SoloPath(Snapshot(last'.recv), OwnBindings(last'.recv))

C12_ReverseTakesSnapshot ==
    [] SnapshotKept /\ [][ReverseOnlyReads /\ SnapshotRendered]_vars

\* the name was overwritten after Reverse, and Path returned the path of the
\* template of then, where the template of now would want a binding
C12_Witness ==
    /\ last.op = "Path"
    /\ handles[last.recv].route = <<"/", "a">>
    /\ names[handles[last.recv].name] = <<"/", ":", "a">>
    /\ last.before = EmptyMap
    /\ last.err = NoError
    /\ last.path = <<"/", "a">>

====
